---- MODULE Spec2Model ----
(***************************************************************************)
(* RSI backtesting tool: calculate_rsi, generate_signals,                  *)
(* backtest_strategy (subcode/calculation.py) and the run_backtest         *)
(* pipeline that chains them (subcode/app.py).                             *)
(*                                                                         *)
(* Numbers.  The program computes with floats.  The model computes with    *)
(* exact rationals <<n, d>> (d > 0, lowest terms) extended with the two    *)
(* float specials the code can produce on a division by zero:              *)
(* Inf = <<1, 0>> (x / 0, x > 0) and NaN = <<0, 0>> (0 / 0).               *)
(***************************************************************************)
EXTENDS Integers, Sequences, FiniteSets, TLC

\* ------------------------------------------------------------------------
\* Bounds of the model
\* ------------------------------------------------------------------------
MaxPrice == 2        \* closes fetched by run_backtest are 1..MaxPrice
MaxLen == 5          \* longest price series fetched by run_backtest
MaxClose == 3        \* closes of a data frame handed directly to a function
MaxRows == 3         \* rows of a data frame handed directly to a function
MaxRuns == 3         \* runs of run_backtest in one session of the application
RunLen == 3          \* longest price series fetched in a session of several runs

\* ------------------------------------------------------------------------
\* Float arithmetic
\* ------------------------------------------------------------------------
Abs(x) == IF x < 0 THEN -x ELSE x

RECURSIVE GCD(_, _)
GCD(a, b) == IF b = 0 THEN a ELSE GCD(b, a % b)

NaN == <<0, 0>>
Inf == <<1, 0>>
NegInf == <<-1, 0>>

\* the float n / d for integers n, d with d # 0
Rat(n, d) ==
    LET g == GCD(Abs(n), Abs(d))
        s == IF d < 0 THEN -1 ELSE 1
    IN  <<(s * n) \div g, (s * d) \div g>>

Num(k) == <<k, 1>>

IsNaN(x) == x = NaN
IsInf(x) == x = Inf
IsFinite(x) == x[2] > 0

\* -1, 0 or 1; the sign of an infinity is its numerator
Sign(x) == IF x[1] > 0 THEN 1 ELSE IF x[1] < 0 THEN -1 ELSE 0

\* the infinity of sign s (s # 0)
SignedInf(s) == IF s > 0 THEN Inf ELSE NegInf

FAdd(x, y) ==
    IF IsNaN(x) \/ IsNaN(y) THEN NaN
    ELSE IF ~IsFinite(x) /\ ~IsFinite(y) THEN (IF x = y THEN x ELSE NaN)
    ELSE IF ~IsFinite(x) THEN x
    ELSE IF ~IsFinite(y) THEN y
    ELSE LET g == GCD(x[2], y[2])
         IN  Rat(x[1] * (y[2] \div g) + y[1] * (x[2] \div g),
                 (x[2] \div g) * y[2])

FNeg(x) == IF IsNaN(x) THEN NaN ELSE <<-x[1], x[2]>>

FSub(x, y) == FAdd(x, FNeg(y))

FMul(x, y) ==
    IF IsNaN(x) \/ IsNaN(y) THEN NaN
    ELSE IF IsFinite(x) /\ IsFinite(y)
         THEN LET a == Rat(x[1], y[2])
                  b == Rat(y[1], x[2])
              IN  <<a[1] * b[1], a[2] * b[2]>>
    ELSE IF Sign(x) * Sign(y) = 0 THEN NaN
    ELSE SignedInf(Sign(x) * Sign(y))

\* float division as numpy / pandas perform it: x / 0 is inf or -inf by the
\* sign of x, 0 / 0 is NaN, x / inf is 0; no exception is raised
FDiv(x, y) ==
    IF IsNaN(x) \/ IsNaN(y) THEN NaN
    ELSE IF ~IsFinite(y) THEN (IF ~IsFinite(x) THEN NaN ELSE Num(0))
    ELSE IF ~IsFinite(x)
         THEN SignedInf(IF Sign(y) < 0 THEN -Sign(x) ELSE Sign(x))
    ELSE IF y[1] = 0 THEN (IF x[1] = 0 THEN NaN ELSE SignedInf(Sign(x)))
    ELSE FMul(x, Rat(y[2], y[1]))

\* comparisons; any comparison with NaN is False
FLt(x, y) ==
    /\ ~IsNaN(x) /\ ~IsNaN(y)
    /\ x # y
    /\ \/ x = NegInf
       \/ y = Inf
       \/ IsFinite(x) /\ IsFinite(y) /\ x[1] * y[2] < y[1] * x[2]
FLe(x, y) == ~IsNaN(x) /\ ~IsNaN(y) /\ (x = y \/ FLt(x, y))
FGt(x, y) == FLt(y, x)
FGe(x, y) == FLe(y, x)

\* x // y followed by int(): floor of the quotient (finite x, y > 0)
FloorDiv(x, y) == (x[1] * y[2]) \div (x[2] * y[1])

\* ------------------------------------------------------------------------
\* calculate_rsi (calculation.py 43-52)
\* ------------------------------------------------------------------------
RSI_DEFAULT_PERIOD == 14

\* mutant: the first row's difference is taken from 0
Delta_FromZero(close, t) ==
    IF t = 1 THEN close[1] ELSE FSub(close[t], close[t - 1])

\* data['Close'].diff(): NaN in the first row
Delta(close, t) == IF t = 1 THEN NaN ELSE FSub(close[t], close[t - 1])

\* delta.where(delta > 0, 0).fillna(0)
Gain(close, t) ==
    IF FGt(Delta(close, t), Num(0)) THEN Delta(close, t) ELSE Num(0)

\* (-delta.where(delta < 0, 0)).fillna(0)
Loss(close, t) ==
    IF FLt(Delta(close, t), Num(0)) THEN FNeg(Delta(close, t)) ELSE Num(0)

\* first row of the trailing window of rolling(window=period, min_periods=1)
WindowStart(t, period) == IF t - period + 1 < 1 THEN 1 ELSE t - period + 1

RECURSIVE SumGain(_, _, _)
SumGain(close, from, to) ==
    IF from > to THEN Num(0)
    ELSE FAdd(SumGain(close, from, to - 1), Gain(close, to))

RECURSIVE SumLoss(_, _, _)
SumLoss(close, from, to) ==
    IF from > to THEN Num(0)
    ELSE FAdd(SumLoss(close, from, to - 1), Loss(close, to))

AvgGain(close, t, period) ==
    FDiv(SumGain(close, WindowStart(t, period), t),
         Num(t - WindowStart(t, period) + 1))

AvgLoss(close, t, period) ==
    FDiv(SumLoss(close, WindowStart(t, period), t),
         Num(t - WindowStart(t, period) + 1))

\* rs = avg_gain / avg_loss
RelativeStrength(close, t, period) ==
    FDiv(AvgGain(close, t, period), AvgLoss(close, t, period))

\* mutant: 100 - (100 / rs)
RsiFormula_NoOne(rs) == FSub(Num(100), FDiv(Num(100), rs))

\* 100 - (100 / (1 + rs))
RsiFormula(rs) == FSub(Num(100), FDiv(Num(100), FAdd(Num(1), rs)))

\* mutant: the missing values are filled with 0
FillNa50_Zero(x) == IF IsNaN(x) THEN Num(0) ELSE x

\* .fillna(50)
FillNa50(x) == IF IsNaN(x) THEN Num(50) ELSE x

calculate_rsi(close, period) ==
    [t \in 1..Len(close) |->
        FillNa50(RsiFormula(RelativeStrength(close, t, period)))]

\* ------------------------------------------------------------------------
\* generate_signals (calculation.py 57-63)
\* ------------------------------------------------------------------------
\* data['RSI'].shift(1): NaN in the first row
Shift1(rsi, t) == IF t = 1 THEN NaN ELSE rsi[t - 1]

\* mutant: the previous value is compared with >= instead of <=
buy_signals_PriorAbove(rsi, t, rsi_oversold) ==
    FGt(rsi[t], rsi_oversold) /\ FGe(Shift1(rsi, t), rsi_oversold)

\* mutant: the current value is compared with >= instead of >
buy_signals_CurrentNonStrict(rsi, t, rsi_oversold) ==
    FGe(rsi[t], rsi_oversold) /\ FLe(Shift1(rsi, t), rsi_oversold)

\* (RSI > rsi_oversold) & (RSI.shift(1) <= rsi_oversold)
buy_signals(rsi, t, rsi_oversold) ==
    FGt(rsi[t], rsi_oversold) /\ FLe(Shift1(rsi, t), rsi_oversold)

\* mutant: the current value is compared with <= instead of <
sell_signals_CurrentNonStrict(rsi, t, rsi_overbought) ==
    FLe(rsi[t], rsi_overbought) /\ FGe(Shift1(rsi, t), rsi_overbought)

\* (RSI < rsi_overbought) & (RSI.shift(1) >= rsi_overbought)
sell_signals(rsi, t, rsi_overbought) ==
    FLt(rsi[t], rsi_overbought) /\ FGe(Shift1(rsi, t), rsi_overbought)

\* mutant: the Buy and Sell markers are exchanged
generate_signals_Exchanged(rsi, rsi_overbought, rsi_oversold) ==
    LET s0 == [t \in 1..Len(rsi) |-> 0]
        s1 == [t \in 1..Len(rsi) |->
                  IF buy_signals(rsi, t, rsi_oversold) THEN -1 ELSE s0[t]]
    IN  [t \in 1..Len(rsi) |->
            IF sell_signals(rsi, t, rsi_overbought) THEN 1 ELSE s1[t]]

\* the three writes to the Signal column, in the order of the code
generate_signals(rsi, rsi_overbought, rsi_oversold) ==
    LET s0 == [t \in 1..Len(rsi) |-> 0]
        s1 == [t \in 1..Len(rsi) |->
                  IF buy_signals(rsi, t, rsi_oversold) THEN 1 ELSE s0[t]]
    IN  [t \in 1..Len(rsi) |->
            IF sell_signals(rsi, t, rsi_overbought) THEN -1 ELSE s1[t]]

\* ------------------------------------------------------------------------
\* backtest_strategy (calculation.py 70-122): one loop iteration on the
\* ledger L = the function's local variables
\* ------------------------------------------------------------------------
NewLedger(initial_capital) ==
    [cash |-> initial_capital, holdings |-> 0, total_fees |-> Num(0),
     portfolio_values |-> <<>>, positions |-> <<>>, trades |-> <<>>,
     daily_returns |-> <<>>, prev_portfolio_value |-> initial_capital]

\* shares = int(cash // price)
Shares(cash, price) == FloorDiv(cash, price)

\* mutant: the fee is computed with the opposite sign
TradeFee_Negated(shares, price, fee_percentage) ==
    FNeg(FMul(FMul(Num(shares), price), fee_percentage))

\* fee = shares * price * fee_percentage
TradeFee(shares, price, fee_percentage) ==
    FMul(FMul(Num(shares), price), fee_percentage)

\* mutant: the buy fee is counted in total_fees but not taken from cash
ExecuteBuy_FeeNotCharged(L, price, fee_percentage) ==
    LET shares == Shares(L.cash, price)
        fee == TradeFee(shares, price, fee_percentage)
    IN  [L EXCEPT !.cash = FSub(@, FMul(Num(shares), price)),
                  !.holdings = @ + shares,
                  !.total_fees = FAdd(@, fee),
                  !.positions = Append(@, 1)]

\* lines 90-94: an executed buy
ExecuteBuy(L, price, fee_percentage) ==
    LET shares == Shares(L.cash, price)
        fee == TradeFee(shares, price, fee_percentage)
    IN  [L EXCEPT !.cash = FSub(@, FAdd(FMul(Num(shares), price), fee)),
                  !.holdings = @ + shares,
                  !.total_fees = FAdd(@, fee),
                  !.positions = Append(@, 1)]

\* mutant: the sell fee is taken from the proceeds but not added to total_fees
ExecuteSell_FeeNotCounted(L, price, fee_percentage) ==
    LET fee == TradeFee(L.holdings, price, fee_percentage)
    IN  [L EXCEPT !.cash = FAdd(@, FSub(FMul(Num(L.holdings), price), fee)),
                  !.holdings = 0,
                  !.positions = Append(@, 0)]

\* mutant: the sell fee is added to the proceeds instead of subtracted
ExecuteSell_FeeAdded(L, price, fee_percentage) ==
    LET fee == TradeFee(L.holdings, price, fee_percentage)
    IN  [L EXCEPT !.cash = FAdd(@, FAdd(FMul(Num(L.holdings), price), fee)),
                  !.holdings = 0,
                  !.total_fees = FAdd(@, fee),
                  !.positions = Append(@, 0)]

\* lines 98-102: an executed sell
ExecuteSell(L, price, fee_percentage) ==
    LET fee == TradeFee(L.holdings, price, fee_percentage)
    IN  [L EXCEPT !.cash = FAdd(@, FSub(FMul(Num(L.holdings), price), fee)),
                  !.holdings = 0,
                  !.total_fees = FAdd(@, fee),
                  !.positions = Append(@, 0)]

\* line 106: positions.append(positions[-1] if positions else 0)
CarryPosition(L) ==
    [L EXCEPT !.positions =
        Append(@, IF Len(@) > 0 THEN @[Len(@)] ELSE 0)]

\* mutant: the portfolio value leaves out the value of the holdings
RecordDay_CashOnly(L, price, trade) ==
    LET portfolio_value == L.cash
        daily_return ==
            IF L.prev_portfolio_value # Num(0)
            THEN FDiv(FSub(portfolio_value, L.prev_portfolio_value),
                      L.prev_portfolio_value)
            ELSE Num(0)
    IN  [L EXCEPT !.portfolio_values = Append(@, portfolio_value),
                  !.trades = Append(@, trade),
                  !.daily_returns = Append(@, daily_return),
                  !.prev_portfolio_value = portfolio_value]

\* lines 108-114: the records appended on every iteration
RecordDay(L, price, trade) ==
    LET portfolio_value == FAdd(L.cash, FMul(Num(L.holdings), price))
        daily_return ==
            IF L.prev_portfolio_value # Num(0)
            THEN FDiv(FSub(portfolio_value, L.prev_portfolio_value),
                      L.prev_portfolio_value)
            ELSE Num(0)
    IN  [L EXCEPT !.portfolio_values = Append(@, portfolio_value),
                  !.trades = Append(@, trade),
                  !.daily_returns = Append(@, daily_return),
                  !.prev_portfolio_value = portfolio_value]

\* lines 83-114: the loop body
LoopBody(L, price, signal, fee_percentage) ==
    IF signal = 1 /\ L.holdings = 0
    THEN IF Shares(L.cash, price) > 0
         THEN RecordDay(ExecuteBuy(L, price, fee_percentage), price, 1)
         ELSE RecordDay(L, price, 0)
    ELSE IF signal = -1 /\ L.holdings > 0
    THEN RecordDay(ExecuteSell(L, price, fee_percentage), price, -1)
    ELSE RecordDay(CarryPosition(L), price, 0)

\* the ledger after the first k iterations of the loop
RECURSIVE RunLoop(_, _, _, _, _)
RunLoop(close, signal, initial_capital, fee_percentage, k) ==
    IF k = 0 THEN NewLedger(initial_capital)
    ELSE LoopBody(RunLoop(close, signal, initial_capital, fee_percentage, k - 1),
                  close[k], signal[k], fee_percentage)

\* ------------------------------------------------------------------------
\* calculate_performance_metrics (calculation.py 129-195)
\* ------------------------------------------------------------------------
TRADING_DAYS == 252
risk_free_rate == Rat(1, 100)

\* Series.mean() and Series.std() skip NaN entries (skipna)
RECURSIVE DropNa(_)
DropNa(s) ==
    IF s = <<>> THEN <<>>
    ELSE IF IsNaN(Head(s)) THEN DropNa(Tail(s))
    ELSE <<Head(s)>> \o DropNa(Tail(s))

AllFinite(s) == \A k \in 1..Len(s) : IsFinite(s[k])
AllEqual(s) == \A k \in 1..Len(s) : s[k] = s[1]

\* Series.std(), the sample standard deviation (ddof = 1), by the kind of its
\* value: NaN for fewer than two values (0 / 0) or a sample holding an
\* infinity (inf - inf), 0 for equal values, positive otherwise
StdClass(s) ==
    IF Len(DropNa(s)) < 2 \/ ~AllFinite(DropNa(s)) THEN "nan"
    ELSE IF AllEqual(DropNa(s)) THEN "zero"
    ELSE "positive"

\* std() * np.sqrt(252), kept as the expression std(sample) * sqrt(days)
\* with the kind of its value; the sample is kept only where the value
\* depends on it
AnnualVolatility(s) ==
    [class |-> StdClass(s),
     sample |-> IF StdClass(s) = "positive" THEN DropNa(s) ELSE <<>>,
     days |-> TRADING_DAYS]

\* volatility != 0 (True for NaN)
VolatilityNonZero(v) == v.class # "zero"

\* the literal 0 of the else branch
SharpeZero == [class |-> "zero", sample |-> <<>>, days |-> TRADING_DAYS,
               risk_free |-> risk_free_rate]

\* anything / NaN
SharpeNaN == [class |-> "nan", sample |-> <<>>, days |-> TRADING_DAYS,
              risk_free |-> risk_free_rate]

\* (returns.mean() * 252 - risk_free_rate) / volatility if volatility != 0
\* else 0; class "quotient" stands for the finite value
\* (mean(sample) * days - risk_free) / (std(sample) * sqrt(days))
SharpeRatio(s) ==
    IF VolatilityNonZero(AnnualVolatility(s))
    THEN IF AnnualVolatility(s).class = "nan" THEN SharpeNaN
         ELSE [class |-> "quotient", sample |-> AnnualVolatility(s).sample,
               days |-> TRADING_DAYS, risk_free |-> risk_free_rate]
    ELSE SharpeZero

\* expanding(min_periods=1).max() at row t
RECURSIVE ExpandingMax(_, _)
ExpandingMax(s, t) ==
    IF t = 1 THEN s[1]
    ELSE IF FGt(s[t], ExpandingMax(s, t - 1)) THEN s[t]
    ELSE ExpandingMax(s, t - 1)

\* mutant: the drop is divided by the value itself
Drawdown_OverValue(s, t) == FDiv(FSub(s[t], ExpandingMax(s, t)), s[t])

\* (value - cumulative_max) / cumulative_max at row t
Drawdown(s, t) ==
    FDiv(FSub(s[t], ExpandingMax(s, t)), ExpandingMax(s, t))

\* Series.min() over rows 1..k; NaN rows are skipped, NaN if all are NaN
RECURSIVE SeriesMin(_, _)
SeriesMin(s, k) ==
    IF k = 0 THEN NaN
    ELSE LET m == SeriesMin(s, k - 1)
         IN  IF IsNaN(s[k]) THEN m
             ELSE IF IsNaN(m) \/ FLt(s[k], m) THEN s[k]
             ELSE m

MaxDrawdown(s) ==
    SeriesMin([t \in 1..Len(s) |-> Drawdown(s, t)], Len(s))

\* (final value / initial_capital) - 1
TotalReturn(s, initial_capital) ==
    FSub(FDiv(s[Len(s)], initial_capital), Num(1))

\* data['Trades'].abs().sum()
RECURSIVE CountTrades(_, _)
CountTrades(tr, k) ==
    IF k = 0 THEN 0 ELSE CountTrades(tr, k - 1) + Abs(tr[k])

\* mutant: the close is scaled by the previous day's close
BuyAndHoldValue_OverPrevious(close, initial_capital) ==
    [t \in 1..Len(close) |->
        FMul(initial_capital,
             FDiv(close[t], close[IF t = 1 THEN 1 ELSE t - 1]))]

\* initial_capital * (Close / Close.iloc[0])
BuyAndHoldValue(close, initial_capital) ==
    [t \in 1..Len(close) |-> FMul(initial_capital, FDiv(close[t], close[1]))]

\* Close.pct_change().fillna(0)
BuyAndHoldDailyReturn(close) ==
    [t \in 1..Len(close) |->
        IF t = 1 THEN Num(0)
        ELSE FSub(FDiv(close[t], close[t - 1]), Num(1))]

\* the values behind the metrics dictionary and the two added columns
calculate_performance_metrics(close, pv, tr, ret, fees, initial_capital) ==
    [total_return |-> TotalReturn(pv, initial_capital),
     max_drawdown |-> MaxDrawdown(pv),
     total_fees |-> fees,
     final_portfolio_value |-> pv[Len(pv)],
     strategy_volatility |-> AnnualVolatility(ret),
     strategy_sharpe_ratio |-> SharpeRatio(ret),
     num_trades |-> CountTrades(tr, Len(tr)),
     bh_portfolio_value |-> BuyAndHoldValue(close, initial_capital),
     bh_daily_return |-> BuyAndHoldDailyReturn(close),
     bh_total_return |->
         TotalReturn(BuyAndHoldValue(close, initial_capital), initial_capital),
     bh_max_drawdown |-> MaxDrawdown(BuyAndHoldValue(close, initial_capital)),
     bh_volatility |-> AnnualVolatility(BuyAndHoldDailyReturn(close)),
     bh_sharpe_ratio |-> SharpeRatio(BuyAndHoldDailyReturn(close)),
     bh_final_portfolio_value |->
         BuyAndHoldValue(close, initial_capital)[Len(close)]]

\* ------------------------------------------------------------------------
\* State
\* ------------------------------------------------------------------------
VARIABLES
    pc,                 \* position in run_backtest / in the function under test
    message,            \* text of the dialog shown by run_backtest, "" if none
    capital_entry, fee_entry, overbought_entry, oversold_entry,  \* GUI entries
    initial_capital, fee_percentage, rsi_overbought, rsi_oversold,
    period,             \* calculate_rsi's period argument
    Close, RSI, Signal, \* columns of the data frame
    i,                  \* rows processed by backtest_strategy's loop
    cash, holdings, total_fees, portfolio_values, positions, trades,
    daily_returns, prev_portfolio_value,
    metrics,            \* the values computed by calculate_performance_metrics
    run                 \* number of the current call of run_backtest

inputs == <<capital_entry, fee_entry, overbought_entry, oversold_entry>>
params == <<initial_capital, fee_percentage, rsi_overbought, rsi_oversold,
            period>>
frame == <<Close, RSI, Signal>>
ledger == <<cash, holdings, total_fees, portfolio_values, positions, trades,
            daily_returns, prev_portfolio_value>>
vars == <<pc, message, inputs, params, frame, i, ledger, metrics, run>>

\* the locals of backtest_strategy as one record, and back
Ledger ==
    [cash |-> cash, holdings |-> holdings, total_fees |-> total_fees,
     portfolio_values |-> portfolio_values, positions |-> positions,
     trades |-> trades, daily_returns |-> daily_returns,
     prev_portfolio_value |-> prev_portfolio_value]

SetLedger(L) ==
    /\ cash' = L.cash
    /\ holdings' = L.holdings
    /\ total_fees' = L.total_fees
    /\ portfolio_values' = L.portfolio_values
    /\ positions' = L.positions
    /\ trades' = L.trades
    /\ daily_returns' = L.daily_returns
    /\ prev_portfolio_value' = L.prev_portfolio_value

\* ------------------------------------------------------------------------
\* Input domains
\* ------------------------------------------------------------------------
SeqsUpTo(S, lo, hi) == UNION {[1..k -> S] : k \in lo..hi}

Prices == {Num(k) : k \in 1..MaxPrice}
Closes == {Num(k) : k \in 1..MaxClose}
CapitalEntries == {Num(0), Num(1), Num(7)}
FeeEntries == {Num(-1), Num(0), Num(5), Num(200)}    \* percent
ThresholdEntries == {Num(0), Num(40), Num(50), Num(60), Num(100)}
Periods == {1, 2, RSI_DEFAULT_PERIOD}
Capitals == {Num(1), Num(5)}
FeeRates == {Num(0), Rat(1, 10)}
Thresholds == {<<Num(70), Num(30)>>, <<Num(50), Num(25)>>}  \* <<OB, OS>>
Indicators == {Num(0), Num(25), Num(30), Num(50), Num(70), Num(100)}

Unset == NaN

NoVolatility == [class |-> "unset", sample |-> <<>>, days |-> TRADING_DAYS]
NoSharpe == [class |-> "unset", sample |-> <<>>, days |-> TRADING_DAYS,
             risk_free |-> risk_free_rate]

NoMetrics ==
    [total_return |-> Unset, max_drawdown |-> Unset, total_fees |-> Unset,
     final_portfolio_value |-> Unset,
     strategy_volatility |-> NoVolatility,
     strategy_sharpe_ratio |-> NoSharpe,
     num_trades |-> 0,
     bh_portfolio_value |-> <<>>, bh_daily_return |-> <<>>,
     bh_total_return |-> Unset, bh_max_drawdown |-> Unset,
     bh_volatility |-> NoVolatility,
     bh_sharpe_ratio |-> NoSharpe,
     bh_final_portfolio_value |-> Unset]

FirstRun ==
    /\ metrics = NoMetrics
    /\ run = 1

NoLedger ==
    /\ i = 0
    /\ cash = Unset /\ holdings = 0 /\ total_fees = Unset
    /\ portfolio_values = <<>> /\ positions = <<>> /\ trades = <<>>
    /\ daily_returns = <<>> /\ prev_portfolio_value = Unset

NoEntries ==
    /\ capital_entry = Unset /\ fee_entry = Unset
    /\ overbought_entry = Unset /\ oversold_entry = Unset

\* ------------------------------------------------------------------------
\* run_backtest (app.py 165-210)
\* ------------------------------------------------------------------------
Init ==
    /\ pc = "validate"
    /\ message = ""
    /\ capital_entry \in CapitalEntries
    /\ fee_entry \in FeeEntries
    /\ overbought_entry \in ThresholdEntries
    /\ oversold_entry \in ThresholdEntries
    /\ initial_capital = Unset /\ fee_percentage = Unset
    /\ rsi_overbought = Unset /\ rsi_oversold = Unset
    /\ period = RSI_DEFAULT_PERIOD
    /\ Close = <<>> /\ RSI = <<>> /\ Signal = <<>>
    /\ NoLedger
    /\ FirstRun

\* mutant: the comparison of the two thresholds is left out
ValidationError_NoOrderCheck(capital, fee, overbought, oversold) ==
    IF FLe(capital, Num(0)) THEN "Starting capital must be positive."
    ELSE IF FLt(FDiv(fee, Num(100)), Num(0))
         THEN "Fee percentage cannot be negative."
    ELSE IF ~(FLt(Num(0), overbought) /\ FLt(overbought, Num(100)))
         THEN "RSI Overbought level must be between 0 and 100."
    ELSE IF ~(FLt(Num(0), oversold) /\ FLt(oversold, Num(100)))
         THEN "RSI Oversold level must be between 0 and 100."
    ELSE ""

\* lines 169-186: the message of the first ValueError raised, "" if none
ValidationError(capital, fee, overbought, oversold) ==
    IF FLe(capital, Num(0)) THEN "Starting capital must be positive."
    ELSE IF FLt(FDiv(fee, Num(100)), Num(0))
         THEN "Fee percentage cannot be negative."
    ELSE IF ~(FLt(Num(0), overbought) /\ FLt(overbought, Num(100)))
         THEN "RSI Overbought level must be between 0 and 100."
    ELSE IF ~(FLt(Num(0), oversold) /\ FLt(oversold, Num(100)))
         THEN "RSI Oversold level must be between 0 and 100."
    ELSE IF FGe(oversold, overbought)
         THEN "RSI Oversold level must be less than RSI Overbought level."
    ELSE ""

\* lines 188-190: a ValueError is shown and the handler returns
RejectInput ==
    /\ pc = "validate"
    /\ ValidationError(capital_entry, fee_entry, overbought_entry,
                       oversold_entry) # ""
    /\ message' = ValidationError(capital_entry, fee_entry, overbought_entry,
                                  oversold_entry)
    /\ pc' = "input_error"
    /\ UNCHANGED <<inputs, params, frame, i, ledger, metrics, run>>

\* lines 166-186 without a ValueError
AcceptInput ==
    /\ pc = "validate"
    /\ ValidationError(capital_entry, fee_entry, overbought_entry,
                       oversold_entry) = ""
    /\ initial_capital' = capital_entry
    /\ fee_percentage' = FDiv(fee_entry, Num(100))
    /\ rsi_overbought' = overbought_entry
    /\ rsi_oversold' = oversold_entry
    /\ pc' = "fetch"
    /\ UNCHANGED <<message, inputs, period, frame, i, ledger, metrics, run>>

\* mutant: the empty frame is not checked and the run goes on
FetchNoData_NoCheck ==
    /\ pc = "fetch"
    /\ pc' = "rsi"
    /\ UNCHANGED <<message, inputs, params, frame, i, ledger, metrics, run>>

\* lines 197-200: the provider returns no rows
FetchNoData ==
    /\ pc = "fetch"
    /\ message' = "No data available for the selected parameters."
    /\ pc' = "no_data"
    /\ UNCHANGED <<inputs, params, frame, i, ledger, metrics, run>>

\* line 197: the provider returns a non-empty series of closes
FetchData ==
    /\ pc = "fetch"
    /\ \E series \in SeqsUpTo(Prices, 1, MaxLen) : Close' = series
    /\ pc' = "rsi"
    /\ UNCHANGED <<message, inputs, params, RSI, Signal, i, ledger, metrics, run>>

\* line 202 / calculate_rsi
CalculateRsi ==
    /\ pc = "rsi"
    /\ RSI' = calculate_rsi(Close, period)
    /\ pc' = "signals"
    /\ UNCHANGED <<message, inputs, params, Close, Signal, i, ledger, metrics, run>>

\* line 203 / generate_signals
GenerateSignals ==
    /\ pc = "signals"
    /\ Signal' = generate_signals(RSI, rsi_overbought, rsi_oversold)
    /\ pc' = "enter_backtest"
    /\ UNCHANGED <<message, inputs, params, Close, RSI, i, ledger, metrics, run>>

\* mutant: the ledger of the previous call is kept when there is one
EnterBacktest_KeepLedger ==
    /\ pc = "enter_backtest"
    /\ IF portfolio_values = <<>>
       THEN SetLedger(NewLedger(initial_capital))
       ELSE SetLedger([Ledger EXCEPT
                !.portfolio_values = <<>>, !.positions = <<>>,
                !.trades = <<>>, !.daily_returns = <<>>])
    /\ i' = 0
    /\ pc' = "backtest"
    /\ UNCHANGED <<message, inputs, params, frame, metrics, run>>

\* calculation.py 72-80: backtest_strategy's locals are initialised
EnterBacktest ==
    /\ pc = "enter_backtest"
    /\ SetLedger(NewLedger(initial_capital))
    /\ i' = 0
    /\ pc' = "backtest"
    /\ UNCHANGED <<message, inputs, params, frame, metrics, run>>

\* calculation.py 87-95 then 108-114: Buy signal while flat, shares > 0
BuyStep ==
    /\ pc = "backtest" /\ i < Len(Close)
    /\ Signal[i + 1] = 1 /\ holdings = 0
    /\ Shares(cash, Close[i + 1]) > 0
    /\ SetLedger(RecordDay(ExecuteBuy(Ledger, Close[i + 1], fee_percentage),
                           Close[i + 1], 1))
    /\ i' = i + 1
    /\ UNCHANGED <<pc, message, inputs, params, frame, metrics, run>>

\* calculation.py 87-89 then 108-114: Buy signal while flat, shares <= 0;
\* no branch appends to positions
UnfilledBuyStep ==
    /\ pc = "backtest" /\ i < Len(Close)
    /\ Signal[i + 1] = 1 /\ holdings = 0
    /\ ~(Shares(cash, Close[i + 1]) > 0)
    /\ SetLedger(RecordDay(Ledger, Close[i + 1], 0))
    /\ i' = i + 1
    /\ UNCHANGED <<pc, message, inputs, params, frame, metrics, run>>

\* mutant: a Sell signal is executed whether or not shares are held
SellStep_WhileFlat ==
    /\ pc = "backtest" /\ i < Len(Close)
    /\ Signal[i + 1] = -1
    /\ SetLedger(RecordDay(ExecuteSell(Ledger, Close[i + 1], fee_percentage),
                           Close[i + 1], -1))
    /\ i' = i + 1
    /\ UNCHANGED <<pc, message, inputs, params, frame, metrics, run>>

\* calculation.py 97-103 then 108-114: Sell signal while holding
SellStep ==
    /\ pc = "backtest" /\ i < Len(Close)
    /\ ~(Signal[i + 1] = 1 /\ holdings = 0)
    /\ Signal[i + 1] = -1 /\ holdings > 0
    /\ SetLedger(RecordDay(ExecuteSell(Ledger, Close[i + 1], fee_percentage),
                           Close[i + 1], -1))
    /\ i' = i + 1
    /\ UNCHANGED <<pc, message, inputs, params, frame, metrics, run>>

\* calculation.py 105-106 then 108-114: the else branch
CarryStep ==
    /\ pc = "backtest" /\ i < Len(Close)
    /\ ~(Signal[i + 1] = 1 /\ holdings = 0)
    /\ ~(Signal[i + 1] = -1 /\ holdings > 0)
    /\ SetLedger(RecordDay(CarryPosition(Ledger), Close[i + 1], 0))
    /\ i' = i + 1
    /\ UNCHANGED <<pc, message, inputs, params, frame, metrics, run>>

\* calculation.py 117-122: the lists become columns of the frame; pandas
\* accepts a list only if it has one value per row
ColumnsFit ==
    /\ Len(portfolio_values) = Len(Close)
    /\ Len(positions) = Len(Close)
    /\ Len(trades) = Len(Close)
    /\ Len(daily_returns) = Len(Close)

ReturnFrame ==
    /\ pc = "backtest" /\ i = Len(Close)
    /\ ColumnsFit
    /\ pc' = "returned"
    /\ UNCHANGED <<message, inputs, params, frame, i, ledger, metrics, run>>

\* data['Positions'] = positions raises ValueError on a length mismatch;
\* nothing in run_backtest catches it
RaiseLengthMismatch ==
    /\ pc = "backtest" /\ i = Len(Close)
    /\ ~ColumnsFit
    /\ pc' = "raised"
    /\ UNCHANGED <<message, inputs, params, frame, i, ledger, metrics, run>>

\* app.py 207 / calculate_performance_metrics
CalculatePerformanceMetrics ==
    /\ pc = "returned"
    /\ metrics' = calculate_performance_metrics(Close, portfolio_values, trades,
                                                 daily_returns, total_fees,
                                                 initial_capital)
    /\ pc' = "done"
    /\ UNCHANGED <<message, inputs, params, frame, i, ledger, run>>

Next ==
    \/ RejectInput
    \/ AcceptInput
    \/ FetchNoData
    \/ FetchData
    \/ CalculateRsi
    \/ GenerateSignals
    \/ EnterBacktest
    \/ BuyStep
    \/ UnfilledBuyStep
    \/ SellStep
    \/ CarryStep
    \/ ReturnFrame
    \/ RaiseLengthMismatch
    \/ CalculatePerformanceMetrics

Spec == Init /\ [][Next]_vars

\* ------------------------------------------------------------------------
\* backtest_strategy called on any frame with Close and Signal columns
\* ------------------------------------------------------------------------
InitLedger ==
    /\ pc = "enter_backtest"
    /\ message = ""
    /\ NoEntries
    /\ initial_capital \in Capitals
    /\ fee_percentage \in FeeRates
    /\ rsi_overbought = Unset /\ rsi_oversold = Unset
    /\ period = RSI_DEFAULT_PERIOD
    /\ \E n \in 1..MaxRows :
          /\ Close \in [1..n -> Prices]
          /\ Signal \in [1..n -> {-1, 0, 1}]
    /\ RSI = <<>>
    /\ NoLedger
    /\ FirstRun

NextLedger ==
    \/ EnterBacktest
    \/ BuyStep
    \/ UnfilledBuyStep
    \/ SellStep
    \/ CarryStep
    \/ ReturnFrame
    \/ RaiseLengthMismatch
    \/ CalculatePerformanceMetrics

SpecLedger == InitLedger /\ [][NextLedger]_vars

\* ------------------------------------------------------------------------
\* calculate_rsi called on any frame with a Close column, any period
\* ------------------------------------------------------------------------
InitRsi ==
    /\ pc = "rsi"
    /\ message = ""
    /\ NoEntries
    /\ initial_capital = Unset /\ fee_percentage = Unset
    /\ rsi_overbought = Unset /\ rsi_oversold = Unset
    /\ period \in Periods
    /\ Close \in SeqsUpTo(Closes, 1, MaxRows + 1)
    /\ RSI = <<>> /\ Signal = <<>>
    /\ NoLedger
    /\ FirstRun

NextRsi == CalculateRsi

SpecRsi == InitRsi /\ [][NextRsi]_vars

\* ------------------------------------------------------------------------
\* generate_signals called on any frame with an RSI column
\* ------------------------------------------------------------------------
InitSignals ==
    /\ pc = "signals"
    /\ message = ""
    /\ NoEntries
    /\ initial_capital = Unset /\ fee_percentage = Unset
    /\ \E th \in Thresholds : rsi_overbought = th[1] /\ rsi_oversold = th[2]
    /\ period = RSI_DEFAULT_PERIOD
    /\ Close = <<>> /\ Signal = <<>>
    /\ RSI \in SeqsUpTo(Indicators, 1, MaxRows + 1)
    /\ NoLedger
    /\ FirstRun

NextSignals == GenerateSignals

SpecSignals == InitSignals /\ [][NextSignals]_vars

\* ========================================================================
\* Properties
\* ========================================================================

\* C1 (as claimed): backtest_strategy never raises and, when its loop has
\* run over every price point, holds exactly one portfolio value, position,
\* trade and daily return per price point -- also after a Buy signal that
\* arrived while flat with too little cash for one share.
C1_TotalOneRecordPerPoint ==
    /\ pc # "raised"
    /\ (pc = "backtest" /\ i = Len(Close)) => ColumnsFit

\* C2: the portfolio value recorded at every step t equals the cash after
\* step t plus the shares held after step t times the close of step t.
C2_PortfolioValueIdentity ==
    (pc \in {"backtest", "returned", "raised"}) =>
        /\ Len(portfolio_values) = i
        /\ i >= 1 =>
              portfolio_values[i] = FAdd(cash, FMul(Num(holdings), Close[i]))
        /\ \A t \in 1..i :
              LET Lt == RunLoop(Close, Signal, initial_capital,
                                fee_percentage, t)
              IN  portfolio_values[t] =
                      FAdd(Lt.cash, FMul(Num(Lt.holdings), Close[t]))

\* C2 witness: shares are held over a day on which the close moved and no
\* trade took place, with cash left over.
C2_Witness ==
    /\ pc = "backtest" /\ i >= 2
    /\ holdings > 0 /\ trades[i] = 0
    /\ Close[i] # Close[i - 1]
    /\ cash # Num(0)

\* C3 (as claimed): cash is >= 0 at the start of every step of the loop.
C3_CashNeverNegative ==
    (pc = "backtest" /\ i < Len(Close)) => FGe(cash, Num(0))

\* the trailing window of step t holds no falling close / no rising close
NoLossInWindow(t) ==
    \A k \in WindowStart(t, period)..t : k = 1 \/ FGe(Close[k], Close[k - 1])
NoGainInWindow(t) ==
    \A k \in WindowStart(t, period)..t : k = 1 \/ FLe(Close[k], Close[k - 1])

\* C4 (as claimed): whenever the trailing average loss at step t is 0, the
\* indicator computed by calculate_rsi at step t is 50.
C4_ZeroLossGivesFifty ==
    pc = "signals" =>
        \A t \in 1..Len(Close) : NoLossInWindow(t) => RSI[t] = Num(50)

\* C4 (amended): whenever the trailing average loss at step t is 0, the
\* indicator at step t is 50 if the trailing average gain is 0 as well and
\* 100 if the trailing average gain is positive; no error is raised.
C4_ZeroLossGivesFiftyOrHundred ==
    pc = "signals" =>
        /\ Len(RSI) = Len(Close)
        /\ \A t \in 1..Len(Close) :
              NoLossInWindow(t) =>
                  RSI[t] = (IF NoGainInWindow(t) THEN Num(50) ELSE Num(100))

\* C4 witness: one frame with a sliding window that holds only gains and a
\* later window that holds neither a gain nor a loss.
C4_Witness ==
    /\ pc = "signals"
    /\ \E t \in 2..Len(Close) :
          /\ WindowStart(t, period) > 1
          /\ NoLossInWindow(t) /\ ~NoGainInWindow(t)
          /\ RSI[t] = Num(100)
    /\ \E t \in 2..Len(Close) :
          /\ NoLossInWindow(t) /\ NoGainInWindow(t)
          /\ RSI[t] = Num(50)

\* the run of backtest_strategy on the same frame and capital with fee 0
ZeroFeeRun == RunLoop(Close, Signal, initial_capital, Num(0), Len(Close))

\* the run with the fee holds as many shares as the zero-fee run after
\* every step
SameSharesAsZeroFeeRun ==
    \A t \in 1..Len(Close) :
        RunLoop(Close, Signal, initial_capital, fee_percentage, t).holdings
            = RunLoop(Close, Signal, initial_capital, Num(0), t).holdings

\* a run with fee_rate > 0 returned with at least one trade, and the
\* zero-fee run on the same inputs returns as well
FeeRunAndZeroFeeRunReturned ==
    /\ pc = "returned"
    /\ FGt(fee_percentage, Num(0))
    /\ \E t \in 1..Len(trades) : trades[t] # 0
    /\ Len(ZeroFeeRun.positions) = Len(Close)

\* C5 (as claimed): with at least one trade, the final portfolio value of a
\* run with fee_rate > 0 is <= the final portfolio value of the zero-fee
\* run on the same inputs.
C5_FeeNeverRaisesFinalValue ==
    FeeRunAndZeroFeeRunReturned =>
        FLe(portfolio_values[Len(Close)],
            ZeroFeeRun.portfolio_values[Len(Close)])

\* C5 (amended): with at least one trade, when the run with fee_rate > 0
\* holds the same number of shares as the zero-fee run after every step,
\* its final portfolio value is the zero-fee final value minus the total
\* fees paid, hence <= it.
C5_FeeLowersFinalValueAtEqualShares ==
    (FeeRunAndZeroFeeRunReturned /\ SameSharesAsZeroFeeRun) =>
        /\ portfolio_values[Len(Close)] =
               FSub(ZeroFeeRun.portfolio_values[Len(Close)], total_fees)
        /\ FLe(portfolio_values[Len(Close)],
               ZeroFeeRun.portfolio_values[Len(Close)])

\* C5 witness: a returned run with a fee that bought and sold as many
\* shares as the zero-fee run and ends strictly below it.
C5_Witness ==
    /\ FeeRunAndZeroFeeRunReturned /\ SameSharesAsZeroFeeRun
    /\ \E t \in 1..Len(trades) : trades[t] = -1
    /\ FLt(portfolio_values[Len(Close)],
           ZeroFeeRun.portfolio_values[Len(Close)])

\* the loop is about to process row i + 1
AtStep == pc = "backtest" /\ i < Len(Close)

\* row i + 1 is an executed entry: Flat, Buy signal, floor(cash/price) >= 1
EntryDue ==
    /\ AtStep
    /\ holdings = 0 /\ Signal[i + 1] = 1
    /\ FloorDiv(cash, Close[i + 1]) >= 1

\* row i + 1 is an executed exit: Holding, Sell signal
ExitDue ==
    /\ AtStep
    /\ holdings > 0 /\ Signal[i + 1] = -1

\* C6: in state Flat with a Buy signal and floor(cash/price) >= 1 the step
\* buys shares = floor(cash/price): cash falls by shares*price +
\* shares*price*fee_rate, shares_held becomes shares, cumulative fees rise by
\* shares*price*fee_rate and trade = +1 is recorded.
C6_BuyEffect ==
    [][EntryDue =>
          LET price == Close[i + 1]
              shares == FloorDiv(cash, price)
              notional == FMul(Num(shares), price)
              fee == FMul(notional, fee_percentage)
          IN  /\ cash' = FSub(cash, FAdd(notional, fee))
              /\ holdings' = shares
              /\ total_fees' = FAdd(total_fees, fee)
              /\ Len(trades') = i + 1 /\ trades'[i + 1] = 1]_vars

\* C6 witness: a buy of at least two shares that paid a fee has executed.
C6_Witness ==
    /\ pc = "backtest" /\ i >= 1
    /\ trades[i] = 1 /\ holdings >= 2
    /\ FGt(total_fees, Num(0))

\* C7: in state Holding with a Sell signal the step sells the whole
\* position: cash rises by shares_held*price - shares_held*price*fee_rate,
\* shares_held becomes 0, cumulative fees rise by shares_held*price*fee_rate
\* and trade = -1 is recorded.
C7_SellEffect ==
    [][ExitDue =>
          LET price == Close[i + 1]
              notional == FMul(Num(holdings), price)
              fee == FMul(notional, fee_percentage)
          IN  /\ cash' = FAdd(cash, FSub(notional, fee))
              /\ holdings' = 0
              /\ total_fees' = FAdd(total_fees, fee)
              /\ Len(trades') = i + 1 /\ trades'[i + 1] = -1]_vars

\* C7 witness: a sell that paid a fee has executed after a buy.
C7_Witness ==
    /\ pc = "backtest" /\ i >= 2
    /\ trades[i] = -1 /\ holdings = 0
    /\ FGt(fee_percentage, Num(0))
    /\ FGt(total_fees, Num(0))

\* C8 (as claimed): on every step that is not an executed entry or exit,
\* cash, shares_held and cumulative fees are unchanged, the position
\* recorded for the step equals the previous step's position (Flat before
\* the first step) and trade = 0; shares_held changes only at steps whose
\* trade marker is +1 or -1.
C8_NoTradeFrame ==
    [][/\ (AtStep /\ ~EntryDue /\ ~ExitDue) =>
              /\ cash' = cash
              /\ holdings' = holdings
              /\ total_fees' = total_fees
              /\ Len(trades') = i + 1 /\ trades'[i + 1] = 0
              /\ Len(positions') = i + 1
              /\ Len(positions) = i
              /\ positions'[i + 1] = (IF i = 0 THEN 0 ELSE positions[i])
       /\ (AtStep /\ holdings' # holdings) =>
              /\ Len(trades') = i + 1
              /\ trades'[i + 1] \in {1, -1}]_vars

\* C9: generate_signals emits Buy at step t >= 1 exactly when I_t > OS and
\* I_{t-1} <= OS, Sell at step t >= 1 exactly when I_t < OB and
\* I_{t-1} >= OB, Hold otherwise, and neither at step 0 (row 1 here).
C9_SignalRule ==
    pc = "enter_backtest" =>
        /\ Len(Signal) = Len(RSI)
        /\ \A t \in 1..Len(RSI) :
              /\ Signal[t] \in {-1, 0, 1}
              /\ Signal[t] = 1 <=>
                    /\ t >= 2
                    /\ FGt(RSI[t], rsi_oversold)
                    /\ FLe(RSI[t - 1], rsi_oversold)
              /\ Signal[t] = -1 <=>
                    /\ t >= 2
                    /\ FLt(RSI[t], rsi_overbought)
                    /\ FGe(RSI[t - 1], rsi_overbought)

\* C9 witness: a frame with a Buy and a Sell, one of them next to an
\* indicator value equal to its threshold.
C9_Witness ==
    /\ pc = "enter_backtest"
    /\ \E t \in 2..Len(Signal) : Signal[t] = 1 /\ RSI[t - 1] = rsi_oversold
    /\ \E t \in 2..Len(Signal) : Signal[t] = -1
    /\ \E t \in 2..Len(Signal) : Signal[t] = 0 /\ RSI[t] = rsi_overbought

\* C10: for 0 < OS < OB < 100 no step satisfies both the Buy condition and
\* the Sell condition, so every step that satisfies the Buy condition still
\* carries Buy after the Sell write.
C10_BuySellExclusive ==
    (pc = "enter_backtest"
        /\ FLt(Num(0), rsi_oversold) /\ FLt(rsi_oversold, rsi_overbought)
        /\ FLt(rsi_overbought, Num(100))) =>
        \A t \in 1..Len(RSI) :
            /\ ~(buy_signals(RSI, t, rsi_oversold)
                    /\ sell_signals(RSI, t, rsi_overbought))
            /\ buy_signals(RSI, t, rsi_oversold) => Signal[t] = 1

\* C10 witness: a Buy was written at a step whose indicator is below OB
\* (half of the Sell condition) and a Sell at a step whose indicator is
\* above OS (half of the Buy condition).
C10_Witness ==
    /\ pc = "enter_backtest"
    /\ FLt(rsi_oversold, rsi_overbought)
    /\ \E t \in 2..Len(RSI) : Signal[t] = 1 /\ FLt(RSI[t], rsi_overbought)
    /\ \E t \in 2..Len(RSI) : Signal[t] = -1 /\ FGt(RSI[t], rsi_oversold)

\* C11: cumulative fees are non-decreasing across every step of a run, for
\* every fee_rate >= 0 and positive prices: every step leaves total_fees
\* equal or larger, an executed Buy or Sell adds a fee >= 0, and the total
\* is never below 0.
C11_FeesNonDecreasing ==
    [][AtStep =>
          /\ FLe(total_fees, total_fees')
          /\ FGe(FSub(total_fees', total_fees), Num(0))
          /\ FGe(total_fees', Num(0))
          /\ trades'[i + 1] = 0 => total_fees' = total_fees]_vars

\* C11 witness: a run at a positive fee rate has finished its loop after a
\* Buy and a later Sell, each of which raised the total.
C11_Witness ==
    /\ pc = "backtest" /\ i = Len(Close)
    /\ FGt(fee_percentage, Num(0))
    /\ \E a \in 1..i : \E b \in (a + 1)..i :
          /\ trades[a] = 1 /\ trades[b] = -1
          /\ FGt(total_fees,
                 TradeFee(Shares(initial_capital, Close[a]), Close[a],
                          fee_percentage))

\* the configurations the claim calls invalid
InvalidEntries ==
    \/ FLe(capital_entry, Num(0))
    \/ FLt(fee_entry, Num(0))
    \/ FLe(overbought_entry, Num(0)) \/ FGe(overbought_entry, Num(100))
    \/ FLe(oversold_entry, Num(0)) \/ FGe(oversold_entry, Num(100))
    \/ FGe(oversold_entry, overbought_entry)

\* C12: invalid configurations are rejected before any data retrieval or
\* simulation: with initial capital <= 0, fee rate < 0, a threshold outside
\* (0,100) or oversold >= overbought, the only step run_backtest takes is
\* the one that ends it with an input error, and no price series, indicator,
\* signal, ledger or metrics is ever produced in that run.
C12_InvalidRejected ==
    [][InvalidEntries =>
          /\ pc = "validate" /\ pc' = "input_error"
          /\ message' # ""
          /\ Close' = <<>> /\ RSI' = <<>> /\ Signal' = <<>>
          /\ NoLedger' /\ metrics' = NoMetrics]_vars

\* C12 witness: the inverted thresholds oversold 60 / overbought 40, each
\* inside (0,100), with valid capital and fee, have been rejected.
C12_Witness ==
    /\ pc = "input_error"
    /\ oversold_entry = Num(60) /\ overbought_entry = Num(40)
    /\ FGt(capital_entry, Num(0)) /\ FGe(fee_entry, Num(0))
    /\ message = "RSI Oversold level must be less than RSI Overbought level."
    /\ Close = <<>> /\ portfolio_values = <<>>

\* C13: when the retrieved price series is empty, run_backtest ends with the
\* distinct NoData outcome: the only step a validated run takes with an
\* empty series is the one that shows the no-data message and returns, and
\* no indicator, signal, ledger or metrics is produced.
C13_EmptySeriesIsNoData ==
    [][(pc # "validate" /\ Close' = <<>>) =>
          /\ pc = "fetch" /\ pc' = "no_data"
          /\ message' = "No data available for the selected parameters."
          /\ RSI' = <<>> /\ Signal' = <<>>
          /\ NoLedger' /\ metrics' = NoMetrics]_vars

\* C13 witness: a validated run has ended in the NoData outcome.
C13_Witness ==
    /\ pc = "no_data"
    /\ ~InvalidEntries
    /\ initial_capital = capital_entry
    /\ Close = <<>> /\ RSI = <<>> /\ portfolio_values = <<>>
    /\ message = "No data available for the selected parameters."

\* ------------------------------------------------------------------------
\* calculate_rsi, generate_signals, backtest_strategy and
\* calculate_performance_metrics applied in turn to the closes of a worked
\* example and to each of its leading parts
\* ------------------------------------------------------------------------
ScenarioSeries ==
    <<Num(100), Num(100), Num(90), Num(90), Num(110), Num(110), Num(130),
      Num(80), Num(80), Num(80)>>

InitScenario ==
    /\ pc = "rsi"
    /\ message = ""
    /\ NoEntries
    /\ initial_capital \in {Num(1000), Num(50)}
    /\ fee_percentage \in {Num(0), Rat(1, 10)}
    /\ \E th \in Thresholds : rsi_overbought = th[1] /\ rsi_oversold = th[2]
    /\ period \in {2, RSI_DEFAULT_PERIOD}
    /\ \E n \in 1..Len(ScenarioSeries) : Close = SubSeq(ScenarioSeries, 1, n)
    /\ RSI = <<>> /\ Signal = <<>>
    /\ NoLedger
    /\ FirstRun

NextScenario ==
    \/ CalculateRsi
    \/ GenerateSignals
    \/ EnterBacktest
    \/ BuyStep
    \/ UnfilledBuyStep
    \/ SellStep
    \/ CarryStep
    \/ ReturnFrame
    \/ RaiseLengthMismatch
    \/ CalculatePerformanceMetrics

SpecScenario == InitScenario /\ [][NextScenario]_vars

\* the worked example: the whole series, period 2, overbought 70,
\* oversold 30, capital 1000, fee 0, after backtest_strategy has returned
ScenarioRun ==
    /\ pc \in {"returned", "done"}
    /\ Close = ScenarioSeries
    /\ period = 2
    /\ rsi_overbought = Num(70) /\ rsi_oversold = Num(30)
    /\ initial_capital = Num(1000) /\ fee_percentage = Num(0)

\* C14: in the worked example the signals contain a Sell crossing (the
\* indicator falls from >= 70 to < 70 on a day the price dropped) and a Buy
\* crossing (the indicator rises from <= 30 to > 30), and the final
\* portfolio value equals final cash + final holdings * 80 exactly.
C14_Scenario ==
    ScenarioRun =>
        /\ \E t \in 2..Len(Close) :
              /\ Signal[t] = -1
              /\ FLt(Close[t], Close[t - 1])
              /\ FGe(RSI[t - 1], Num(70)) /\ FLt(RSI[t], Num(70))
        /\ \E t \in 2..Len(Close) :
              /\ Signal[t] = 1
              /\ FLe(RSI[t - 1], Num(30)) /\ FGt(RSI[t], Num(30))
        /\ Len(portfolio_values) = Len(Close)
        /\ portfolio_values[Len(Close)] = FAdd(cash, FMul(Num(holdings), Num(80)))

\* C14 witness: the worked example has run to its metrics; it bought,
\* sold after the fall to 80 and bought again, ending at 10 in cash and 9
\* shares.
C14_Witness ==
    /\ pc = "done" /\ Close = ScenarioSeries /\ period = 2
    /\ rsi_overbought = Num(70) /\ rsi_oversold = Num(30)
    /\ initial_capital = Num(1000) /\ fee_percentage = Num(0)
    /\ trades[8] = -1 /\ trades[10] = 1
    /\ cash = Num(10) /\ holdings = 9
    /\ metrics.final_portfolio_value = Num(730)

\* how far the current run has got
RsiComputed ==
    pc \in {"signals", "enter_backtest", "backtest", "returned", "raised", "done"}
SignalsGenerated ==
    pc \in {"enter_backtest", "backtest", "returned", "raised", "done"}

ConstantClose == Close # <<>> /\ \A t \in 1..Len(Close) : Close[t] = Close[1]

\* C15: for a constant-close price series of any length and any valid
\* thresholds, capital and fee_rate, the indicator is 50 at every step, no
\* Buy or Sell signal fires, the simulated portfolio value equals
\* initial_capital at every step, the run does not fail, and total return
\* and maximum drawdown are 0.
C15_ConstantSeries ==
    ConstantClose =>
        /\ RsiComputed => RSI = [t \in 1..Len(Close) |-> Num(50)]
        /\ SignalsGenerated => Signal = [t \in 1..Len(Close) |-> 0]
        /\ pc = "backtest" =>
              portfolio_values = [t \in 1..i |-> initial_capital]
        /\ pc # "raised"
        /\ pc \in {"returned", "done"} =>
              portfolio_values = [t \in 1..Len(Close) |-> initial_capital]
        /\ pc = "done" =>
              /\ metrics.total_return = Num(0)
              /\ metrics.max_drawdown = Num(0)

\* C15 witness: a run over a constant series of at least three closes, at a
\* positive fee rate and with the oversold threshold at 50, has produced
\* its metrics.
C15_Witness ==
    /\ pc = "done" /\ ConstantClose /\ Len(Close) >= 3
    /\ rsi_oversold = Num(50) /\ FGt(fee_percentage, Num(0))
    /\ portfolio_values[Len(Close)] = initial_capital
    /\ metrics.total_return = Num(0)

\* C16: for a price series of length 1 and any valid configuration, the
\* indicator is 50, the signal is Hold, the simulated portfolio value
\* equals initial_capital and the trade count is 0.
C16_SingleRow ==
    Len(Close) = 1 =>
        /\ RsiComputed => RSI = <<Num(50)>>
        /\ SignalsGenerated => Signal = <<0>>
        /\ pc # "raised"
        /\ pc \in {"returned", "done"} =>
              /\ portfolio_values = <<initial_capital>>
              /\ trades = <<0>> /\ holdings = 0
        /\ pc = "done" =>
              /\ metrics.num_trades = 0
              /\ metrics.final_portfolio_value = initial_capital

\* C16 witness: a run over a single close has produced its metrics.
C16_Witness ==
    /\ pc = "done" /\ Len(Close) = 1
    /\ RSI = <<Num(50)>> /\ Signal = <<0>>
    /\ metrics.num_trades = 0

\* C18: every indicator value produced by calculate_rsi lies in [0,100]
\* (so none is NaN or infinite), and the indicator series has exactly one
\* value per price point, for every series of positive closes and every
\* lookback period P >= 1.
C18_IndicatorRange ==
    pc = "signals" =>
        /\ Len(RSI) = Len(Close)
        /\ \A t \in 1..Len(RSI) :
              FGe(RSI[t], Num(0)) /\ FLe(RSI[t], Num(100))

\* C18 witness: an indicator series computed with a full trailing window
\* holds the value 0, the value 100 and a value strictly between them that
\* is not the fill value 50.
C18_Witness ==
    /\ pc = "signals" /\ period >= 1 /\ Len(RSI) > period
    /\ \E t \in 1..Len(RSI) : RSI[t] = Num(0)
    /\ \E t \in 1..Len(RSI) : RSI[t] = Num(100)
    /\ \E t \in (period + 1)..Len(RSI) :
          /\ FGt(RSI[t], Num(0)) /\ FLt(RSI[t], Num(100))
          /\ RSI[t] # Num(50)

\* C19 (as claimed): the Sharpe ratio reported for the strategy and for the
\* baseline is never an undefined value for a non-empty price series: it is
\* 0 whenever volatility is 0 or cannot be computed (as for a length-1
\* series) and the quotient (mean(daily_return)*252 - 0.01)/volatility
\* otherwise.
C19_SharpeNeverUndefined ==
    pc = "done" =>
        /\ metrics.strategy_sharpe_ratio =
              IF StdClass(daily_returns) = "positive"
              THEN [class |-> "quotient", sample |-> daily_returns,
                    days |-> 252, risk_free |-> Rat(1, 100)]
              ELSE SharpeZero
        /\ metrics.bh_sharpe_ratio =
              IF StdClass(metrics.bh_daily_return) = "positive"
              THEN [class |-> "quotient", sample |-> metrics.bh_daily_return,
                    days |-> 252, risk_free |-> Rat(1, 100)]
              ELSE SharpeZero

\* the largest of the values s[1..t]
RunningMax(s, t) ==
    CHOOSE m \in {s[k] : k \in 1..t} : \A k \in 1..t : FGe(m, s[k])

\* (value_t - running_max_t) / running_max_t
DrawdownAt(s, t) == FDiv(FSub(s[t], RunningMax(s, t)), RunningMax(s, t))

\* m is <= 0 and is the smallest drawdown of the value series s
IsMaxDrawdownOf(m, s) ==
    /\ FLe(m, Num(0))
    /\ \A t \in 1..Len(s) : FLe(m, DrawdownAt(s, t))
    /\ \E t \in 1..Len(s) : m = DrawdownAt(s, t)

\* C20: for every run, the maximum drawdown of the strategy and of the
\* baseline is <= 0 and is the smallest value over t of
\* (value_t - running_max_t)/running_max_t, running_max_t being the maximum
\* value over steps 0..t; this holds for every fee_rate >= 0, including fee
\* rates that make the portfolio value negative.
C20_MaxDrawdownNonPositive ==
    pc = "done" =>
        /\ IsMaxDrawdownOf(metrics.max_drawdown, portfolio_values)
        /\ IsMaxDrawdownOf(metrics.bh_max_drawdown, metrics.bh_portfolio_value)

\* C20 witness: a run whose fee made the portfolio value negative has
\* produced its metrics, with a strategy drawdown below -1 and a baseline
\* drawdown below 0.
C20_Witness ==
    /\ pc = "done"
    /\ FGt(fee_percentage, Num(1))
    /\ \E t \in 1..Len(portfolio_values) : FLt(portfolio_values[t], Num(0))
    /\ FLt(metrics.max_drawdown, Num(-1))
    /\ FLt(metrics.bh_max_drawdown, Num(0))

\* ------------------------------------------------------------------------
\* a session of the application: the Run Backtest button is pressed again
\* after a call of run_backtest has ended
\* ------------------------------------------------------------------------
RunPrices == {Num(1), Num(2)}
RunCapitalEntries == {Num(1), Num(7)}
RunFeeEntries == {Num(5)}                             \* percent
RunThresholdEntries == {<<Num(60), Num(50)>>, <<Num(50), Num(60)>>}  \* <<OB, OS>>

RunEntries ==
    /\ capital_entry \in RunCapitalEntries
    /\ fee_entry \in RunFeeEntries
    /\ \E th \in RunThresholdEntries :
          overbought_entry = th[1] /\ oversold_entry = th[2]

InitRuns ==
    /\ pc = "validate"
    /\ message = ""
    /\ RunEntries
    /\ initial_capital = Unset /\ fee_percentage = Unset
    /\ rsi_overbought = Unset /\ rsi_oversold = Unset
    /\ period = RSI_DEFAULT_PERIOD
    /\ Close = <<>> /\ RSI = <<>> /\ Signal = <<>>
    /\ NoLedger
    /\ FirstRun

\* line 197 in a session: the provider returns a non-empty series of closes
FetchRunData ==
    /\ pc = "fetch"
    /\ \E series \in SeqsUpTo(RunPrices, 1, RunLen) : Close' = series
    /\ pc' = "rsi"
    /\ UNCHANGED <<message, inputs, params, RSI, Signal, i, ledger, metrics, run>>

\* app.py 151: run_backtest is called again once the previous call has
\* ended (returned, or raised into the event loop); the entries may have
\* been edited; what the previous call left behind is still there
NewRun ==
    /\ pc \in {"input_error", "no_data", "raised", "done"}
    /\ run < MaxRuns
    /\ run' = run + 1
    /\ capital_entry' \in RunCapitalEntries
    /\ fee_entry' \in RunFeeEntries
    /\ \E th \in RunThresholdEntries :
          overbought_entry' = th[1] /\ oversold_entry' = th[2]
    /\ message' = ""
    /\ pc' = "validate"
    /\ UNCHANGED <<params, frame, i, ledger, metrics>>

NextRuns ==
    \/ RejectInput
    \/ AcceptInput
    \/ FetchNoData
    \/ FetchRunData
    \/ CalculateRsi
    \/ GenerateSignals
    \/ EnterBacktest
    \/ BuyStep
    \/ UnfilledBuyStep
    \/ SellStep
    \/ CarryStep
    \/ ReturnFrame
    \/ RaiseLengthMismatch
    \/ CalculatePerformanceMetrics
    \/ NewRun

SpecRuns == InitRuns /\ [][NextRuns]_vars

\* what one call of the pipeline computes from the closes and the entries
\* alone, with nothing taken from an earlier call
FreshSignal ==
    generate_signals(calculate_rsi(Close, RSI_DEFAULT_PERIOD),
                     overbought_entry, oversold_entry)
FreshLedger(k) ==
    RunLoop(Close, FreshSignal, capital_entry, FDiv(fee_entry, Num(100)), k)
FreshMetrics ==
    calculate_performance_metrics(
        Close, FreshLedger(Len(Close)).portfolio_values,
        FreshLedger(Len(Close)).trades, FreshLedger(Len(Close)).daily_returns,
        FreshLedger(Len(Close)).total_fees, capital_entry)

\* C17: runs are deterministic and independent: whatever calls came before
\* it in the session, the ledger a run starts from, its simulation result
\* and its performance report are those that the price series,
\* thresholds, capital and fee of that run alone determine, so two runs with
\* the same inputs give identical results and no cash, holdings, fees,
\* previous portfolio value or position list survives into the next run.
C17_RunsIndependent ==
    /\ (pc = "backtest" /\ i = 0) => Ledger = NewLedger(capital_entry)
    /\ pc \in {"returned", "raised", "done"} =>
          /\ RSI = calculate_rsi(Close, RSI_DEFAULT_PERIOD)
          /\ Signal = FreshSignal
          /\ i = Len(Close)
          /\ Ledger = FreshLedger(Len(Close))
    /\ pc = "done" => metrics = FreshMetrics

\* C17 witness: a later run of the session has returned a simulation with
\* an executed trade while the report of an earlier run, which ended at a
\* different final value, is still on display.
C17_Witness ==
    /\ run > 1 /\ pc = "returned"
    /\ \E t \in 1..Len(trades) : trades[t] # 0
    /\ metrics # NoMetrics
    /\ metrics.final_portfolio_value # portfolio_values[Len(portfolio_values)]
    /\ metrics.num_trades > 0

\* C21: the buy-and-hold baseline value at step t is
\* initial_capital * close_t / close_0, so it equals initial_capital at
\* step 0; its total return is close_last/close_0 - 1, whatever the
\* initial capital and fee rate; its final value is the value of the last
\* step; and its first-day daily return is 0, later ones the day's price
\* change over the previous close.
C21_BuyAndHoldBaseline ==
    pc = "done" =>
        /\ Len(metrics.bh_portfolio_value) = Len(Close)
        /\ \A t \in 1..Len(Close) :
              metrics.bh_portfolio_value[t] =
                  FDiv(FMul(initial_capital, Close[t]), Close[1])
        /\ metrics.bh_portfolio_value[1] = initial_capital
        /\ metrics.bh_total_return =
              FSub(FDiv(Close[Len(Close)], Close[1]), Num(1))
        /\ metrics.bh_final_portfolio_value =
              metrics.bh_portfolio_value[Len(Close)]
        /\ Len(metrics.bh_daily_return) = Len(Close)
        /\ metrics.bh_daily_return[1] = Num(0)
        /\ \A t \in 2..Len(Close) :
              metrics.bh_daily_return[t] =
                  FDiv(FSub(Close[t], Close[t - 1]), Close[t - 1])

\* C21 witness: a run at a positive fee rate whose closes rose and fell has
\* produced its metrics, with a baseline that ends away from the initial
\* capital while the strategy paid fees.
C21_Witness ==
    /\ pc = "done" /\ Len(Close) >= 3
    /\ FGt(fee_percentage, Num(0)) /\ FGt(total_fees, Num(0))
    /\ \E t \in 2..Len(Close) : FGt(metrics.bh_daily_return[t], Num(0))
    /\ \E t \in 2..Len(Close) : FLt(metrics.bh_daily_return[t], Num(0))
    /\ metrics.bh_total_return # Num(0)
    /\ metrics.bh_final_portfolio_value # initial_capital

\* the ledger after step t of the current run, from its inputs
LedgerAfter(t) == RunLoop(Close, Signal, initial_capital, fee_percentage, t)
HeldAfter(t) == LedgerAfter(t).holdings

\* the steps at which shares_held changed: executed entries and exits
ExecutionSteps == {t \in 1..i : HeldAfter(t) # HeldAfter(t - 1)}

\* a Buy signal while Flat with zero purchasable shares at step t
UnfilledBuyAt(t) ==
    /\ Signal[t] = 1 /\ HeldAfter(t - 1) = 0
    /\ Shares(LedgerAfter(t - 1).cash, Close[t]) <= 0

\* the trade count reported at the end equals the number of execution steps
ReportedCountIsExecutions ==
    pc = "done" => metrics.num_trades = Cardinality(ExecutionSteps)

\* C22 (as claimed): the reported trade count equals the number of steps at
\* which an entry or exit actually executed; Buy signals ignored while
\* Holding, Sell signals ignored while Flat and Buy signals with zero
\* purchasable shares are not counted, so a run whose loop met such a Buy
\* still returns its frame and reports its count.
C22_TradeCountIsExecutions ==
    /\ ReportedCountIsExecutions
    /\ (pc \in {"returned", "raised", "done"}
        /\ \E t \in 1..Len(Close) : UnfilledBuyAt(t)) =>
          pc \in {"returned", "done"}

\* the steps recorded so far at which a trade executed
TradeSteps == {t \in 1..Len(trades) : trades[t] # 0}
NumBuys == Cardinality({t \in TradeSteps : trades[t] = 1})
NumSells == Cardinality({t \in TradeSteps : trades[t] = -1})

\* C23: in every run the executed trades strictly alternate starting with
\* a Buy: the first non-zero trade marker is +1, no two consecutive
\* non-zero markers are equal, and the number of executed Buys minus the
\* number of executed Sells is always 0 or 1.
C23_TradesAlternate ==
    /\ \A t \in 1..Len(trades) : trades[t] \in {-1, 0, 1}
    /\ \A t \in TradeSteps :
          (\A u \in TradeSteps : u >= t) => trades[t] = 1
    /\ \A a \in TradeSteps : \A b \in TradeSteps :
          (a < b /\ \A u \in TradeSteps : ~(a < u /\ u < b)) =>
              trades[a] # trades[b]
    /\ NumBuys - NumSells \in {0, 1}

\* C23 witness: a run has executed a Buy, a Sell and a Buy again.
C23_Witness ==
    /\ pc = "backtest" /\ i = Len(Close)
    /\ NumBuys = 2 /\ NumSells = 1
    /\ \E a \in TradeSteps : \E b \in TradeSteps : \E c \in TradeSteps :
          a < b /\ b < c /\ trades[a] = 1 /\ trades[b] = -1 /\ trades[c] = 1

\* the positions recorded so far say, step by step, whether shares are held
PositionsMatchHoldings ==
    /\ Len(positions) = i
    /\ \A t \in 1..i : positions[t] = IF HeldAfter(t) > 0 THEN 1 ELSE 0

\* the same for the runs that met no unfillable Buy so far
PositionsMatchHoldingsWhenFilled ==
    (pc \in {"backtest", "returned", "raised", "done"}
     /\ ~\E t \in 1..i : UnfilledBuyAt(t)) => PositionsMatchHoldings

\* C24 (as claimed): at every step t the recorded position marker is 1
\* exactly when shares_held after step t is > 0 (Holding) and 0 exactly
\* when shares_held is 0 (Flat), for every sequence of signals including
\* Buy signals that cannot be filled.
C24_PositionMarker ==
    pc \in {"backtest", "returned", "raised", "done"} => PositionsMatchHoldings

====
